---- MODULE Spec2Model ----
(***************************************************************************)
(* Zenno Concierge: the voice-call negotiation engine (gather handler,     *)
(* voice-document renderer), the call-status webhook and the payment       *)
(* handlers of server/routes.ts, over the in-memory store of               *)
(* server/storage.ts.  One session is modelled; every handler runs as one  *)
(* atomic step.                                                            *)
(***************************************************************************)
EXTENDS Integers, Sequences, FiniteSets, TLC

(* ----------------------------- bounds ---------------------------------- *)
\* calls that may be initiated on the session
MaxCalls == 2
\* length of Session.messages beyond which no appending handler is run
MaxMessages == 7
\* value of ConversationState.attempts beyond which no gather turn is run
MaxCounter == 4
\* settlement pipelines that may be started
MaxSettlements == 2
\* status events the provider delivers
MaxEvents == 2

(* ------------------------- program constants --------------------------- *)
maxAttempts == 3

(* ------------------- optional numbers (JS undefined) ------------------- *)
\* an optional number is <<>> (undefined) or <<v>>
Undefined == <<>>

Some(v) == <<v>>

\* JS truthiness of an optional number: undefined and 0 are falsy
Truthy(o) == o # <<>> /\ o[1] # 0

\* o || d
OrElse(o, d) == IF Truthy(o) THEN o[1] ELSE d

(* ------------------------------ transcripts ---------------------------- *)
\* A transcript is a sequence of tokens; a token is a word or a run of
\* decimal digits.  Devanagari words are written hi_<transliteration>.
Word(w) == [w |-> w, n |-> <<>>]

Numeral(ds) == [w |-> "", n |-> ds]

\* String.prototype.toLowerCase on one word
LowerWord(w) ==
    CASE w = "YES" -> "yes"
      [] w = "Nahi" -> "nahi"
      [] OTHER -> w

toLowerCase(speech) ==
    [i \in DOMAIN speech |-> [speech[i] EXCEPT !.w = LowerWord(@)]]

\* the keywords of the handler that occur as a substring of a (lower-case) word
KeywordsIn(w) ==
    CASE w = "yes" -> {"yes"}
      [] w = "yesterday" -> {"yes"}
      [] w = "no" -> {"no"}
      [] w = "know" -> {"no"}
      [] w = "nahi" -> {"nahi"}
      [] w = "haan" -> {"haan"}
      [] w = "hi_haan" -> {"hi_haan"}
      [] w = "hi_nahin" -> {"hi_nahin"}
      [] w = "hi_theek" -> {"hi_theek"}
      [] w = "hi_chalega" -> {"hi_chalega"}
      [] OTHER -> {}

\* speechResult.includes(kw)
includes(speech, kw) == \E i \in DOMAIN speech : kw \in KeywordsIn(speech[i].w)

IsNumeral(t) == t.n # <<>>

\* speechResult.match(/\d+/g): the digit runs, in order (<<>> for null)
matchDigits(speech) ==
    LET runs == SelectSeq(speech, IsNumeral)
    IN  [i \in DOMAIN runs |-> runs[i].n]

RECURSIVE parseInt(_)
\* parseInt of a run of decimal digits
parseInt(ds) ==
    IF ds = <<>> THEN 0
    ELSE 10 * parseInt(SubSeq(ds, 1, Len(ds) - 1)) + ds[Len(ds)]

\* Math.round of (a + b) / 2 for integers a, b: a half rounds up
roundHalf(a, b) == (a + b + 1) \div 2

\* speechResult || digits
hasInput(speech, digits) == speech # <<>> \/ digits # ""

(* ------------------------- gather handler: stages ---------------------- *)
ValidStages ==
    {"greeting", "askRequirements", "negotiatePrice", "counterOffer",
     "finalAgreement", "noSaree", "ended", "timeout"}

\* the conversationState the handler builds from the stored one
initConversationState(stored) ==
    [stage        |-> stored.stage,
     attempts     |-> stored.attempts,
     quantity     |-> Some(OrElse(stored.quantity, 5)),
     initialPrice |-> Some(OrElse(stored.initialPrice, 8000)),
     vendorPrice  |-> stored.vendorPrice,
     finalPrice   |-> stored.finalPrice]

\* retryOrForce with the threshold test off by one (> for >=)
retryOrForce_OffByOne(stage, cs, forced) ==
    LET a == cs.attempts + 1
    IN  [cs        |-> [cs EXCEPT !.attempts = a],
         nextStage |-> IF a > maxAttempts THEN forced ELSE stage]

\* the retry branch shared by the stages: count the turn, force `forced`
\* at maxAttempts
retryOrForce(stage, cs, forced) ==
    LET a == cs.attempts + 1
    IN  [cs        |-> [cs EXCEPT !.attempts = a],
         nextStage |-> IF a >= maxAttempts THEN forced ELSE stage]

greetingYes(speech, digits) ==
    digits = "1" \/ includes(speech, "hi_haan") \/ includes(speech, "yes")
                 \/ includes(speech, "haan")

greetingNo(speech, digits) ==
    digits = "2" \/ includes(speech, "hi_nahin") \/ includes(speech, "no")
                 \/ includes(speech, "nahi")

caseGreeting(stage, cs, speech, digits) ==
    IF greetingYes(speech, digits)
    THEN [cs |-> [cs EXCEPT !.attempts = 0], nextStage |-> "askRequirements"]
    ELSE IF greetingNo(speech, digits)
    THEN [cs |-> [cs EXCEPT !.attempts = 0], nextStage |-> "noSaree"]
    ELSE retryOrForce(stage, cs, "noSaree")

\* caseAskRequirements taking a first number of 0 as the quantity
caseAskRequirements_ZeroKept(stage, cs, speech, digits) ==
    LET numbers == matchDigits(speech)
    IN  IF Len(numbers) > 0
        THEN [cs |-> [cs EXCEPT
                        !.quantity = Some(parseInt(numbers[1])),
                        !.vendorPrice = IF Len(numbers) > 1
                                        THEN Some(parseInt(numbers[2]))
                                        ELSE @,
                        !.attempts = 0],
              nextStage |-> "negotiatePrice"]
        ELSE IF ~hasInput(speech, digits)
        THEN retryOrForce(stage, cs, "timeout")
        ELSE [cs |-> [cs EXCEPT !.attempts = 0], nextStage |-> "negotiatePrice"]

caseAskRequirements(stage, cs, speech, digits) ==
    LET numbers == matchDigits(speech)
    IN  IF Len(numbers) > 0
        THEN [cs |-> [cs EXCEPT
                        !.quantity = Some(OrElse(Some(parseInt(numbers[1])), 5)),
                        !.vendorPrice = IF Len(numbers) > 1
                                        THEN Some(parseInt(numbers[2]))
                                        ELSE @,
                        !.attempts = 0],
              nextStage |-> "negotiatePrice"]
        ELSE IF ~hasInput(speech, digits)
        THEN retryOrForce(stage, cs, "timeout")
        ELSE [cs |-> [cs EXCEPT !.attempts = 0], nextStage |-> "negotiatePrice"]

negotiateYes(speech, digits) ==
    includes(speech, "hi_haan") \/ includes(speech, "yes") \/ digits = "1"

\* negotiateCounter with the midpoint truncated (Math.floor for Math.round)
negotiateCounter_Floor(cs, speech) ==
    LET priceMatch == matchDigits(speech)
        vendorPrice == IF Len(priceMatch) > 0
                       THEN parseInt(priceMatch[1])
                       ELSE OrElse(cs.initialPrice, 8000) + 2000
    IN  [cs EXCEPT
           !.vendorPrice = Some(vendorPrice),
           !.finalPrice = Some((OrElse(cs.initialPrice, 8000) + vendorPrice) \div 2),
           !.attempts = 0]

\* the counter branch: the vendor's price, then the midpoint
negotiateCounter(cs, speech) ==
    LET priceMatch == matchDigits(speech)
        vendorPrice == IF Len(priceMatch) > 0
                       THEN parseInt(priceMatch[1])
                       ELSE OrElse(cs.initialPrice, 8000) + 2000
    IN  [cs EXCEPT
           !.vendorPrice = Some(vendorPrice),
           !.finalPrice = Some(roundHalf(OrElse(cs.initialPrice, 8000), vendorPrice)),
           !.attempts = 0]

\* caseNegotiatePrice taking a price in the transcript before the yes
caseNegotiatePrice_PriceFirst(stage, cs, speech, digits) ==
    IF negotiateYes(speech, digits) /\ Len(matchDigits(speech)) = 0
    THEN [cs |-> [cs EXCEPT !.finalPrice = cs.initialPrice, !.attempts = 0],
          nextStage |-> "finalAgreement"]
    ELSE IF ~hasInput(speech, digits)
    THEN retryOrForce(stage, cs, "timeout")
    ELSE [cs |-> negotiateCounter(cs, speech), nextStage |-> "counterOffer"]

caseNegotiatePrice(stage, cs, speech, digits) ==
    IF negotiateYes(speech, digits)
    THEN [cs |-> [cs EXCEPT !.finalPrice = cs.initialPrice, !.attempts = 0],
          nextStage |-> "finalAgreement"]
    ELSE IF ~hasInput(speech, digits)
    THEN retryOrForce(stage, cs, "timeout")
    ELSE [cs |-> negotiateCounter(cs, speech), nextStage |-> "counterOffer"]

counterYes(speech, digits) ==
    includes(speech, "hi_haan") \/ includes(speech, "yes")
        \/ includes(speech, "hi_theek") \/ includes(speech, "hi_chalega")
        \/ digits = "1"

\* caseCounterOffer asking again after a reply that is not a yes
caseCounterOffer_AskAgain(stage, cs, speech, digits) ==
    IF counterYes(speech, digits)
    THEN [cs |-> [cs EXCEPT !.attempts = 0], nextStage |-> "finalAgreement"]
    ELSE IF ~hasInput(speech, digits)
    THEN retryOrForce(stage, cs, "timeout")
    ELSE [cs |-> [cs EXCEPT !.finalPrice = Some(OrElse(cs.finalPrice, 9000) + 500),
                            !.attempts = 0],
          nextStage |-> stage]

caseCounterOffer(stage, cs, speech, digits) ==
    IF counterYes(speech, digits)
    THEN [cs |-> [cs EXCEPT !.attempts = 0], nextStage |-> "finalAgreement"]
    ELSE IF ~hasInput(speech, digits)
    THEN retryOrForce(stage, cs, "timeout")
    ELSE [cs |-> [cs EXCEPT !.finalPrice = Some(OrElse(cs.finalPrice, 9000) + 500),
                            !.attempts = 0],
          nextStage |-> "finalAgreement"]

\* switch(stage) of the gather handler
stageSwitch(stage, cs, speech, digits) ==
    CASE stage = "greeting" -> caseGreeting(stage, cs, speech, digits)
      [] stage = "askRequirements" -> caseAskRequirements(stage, cs, speech, digits)
      [] stage = "negotiatePrice" -> caseNegotiatePrice(stage, cs, speech, digits)
      [] stage = "counterOffer" -> caseCounterOffer(stage, cs, speech, digits)
      [] OTHER -> [cs |-> cs, nextStage |-> "ended"]

(* --------------------------- voice documents --------------------------- *)
\* placeholder substitution: x?.toString() || d
subst(o, d) == IF o = <<>> THEN d ELSE o[1]

NoArgs == <<>>

\* A voice document: what is said, the Gather (its action stage and attempt),
\* what follows the Gather, and how the document ends.
Doc(say, args, gather, stage, attempt, after, hangup, redirectStage, redirectAttempt) ==
    [say |-> say, args |-> args, gather |-> gather, stage |-> stage,
     attempt |-> attempt, after |-> after, hangup |-> hangup,
     redirectStage |-> redirectStage, redirectAttempt |-> redirectAttempt]

\* A path segment that decodes to text holding a markup character (x%26y is
\* read as x&y); the templates put a name into the document as it is.
MarkupNames == {"x&y"}

NoDoc == Doc("none", NoArgs, FALSE, "none", 0, "none", FALSE, "none", 0)

\* returnErrorTwiML and the catch block of the twiml endpoint
twimlErrorDoc == Doc("technicalError", NoArgs, FALSE, "none", 0, "none", TRUE, "none", 0)

\* returnErrorTwiML and the catch block of the gather endpoint
gatherErrorDoc == Doc("retryError", NoArgs, FALSE, "none", 0, "none", FALSE, "greeting", 1)

\* the document of both timeout branches of the gather endpoint
timeoutDoc == Doc("timeoutApology", NoArgs, FALSE, "none", 0, "none", TRUE, "none", 0)

\* the script and its substituted placeholders
processedMessage(stage, cs) ==
    CASE stage = "greeting" -> [say |-> "greeting", args |-> NoArgs]
      [] stage = "askRequirements" -> [say |-> "askRequirements", args |-> NoArgs]
      [] stage = "negotiatePrice" ->
            [say |-> "negotiatePrice",
             args |-> <<subst(cs.quantity, 5), subst(cs.initialPrice, 8000)>>]
      [] stage = "counterOffer" ->
            [say |-> "counterOffer",
             args |-> <<subst(cs.vendorPrice, 10000), subst(cs.finalPrice, 9000)>>]
      [] stage = "finalAgreement" ->
            [say |-> "finalAgreement", args |-> <<subst(cs.finalPrice, 9000)>>]
      [] stage = "noSaree" -> [say |-> "noSaree", args |-> NoArgs]
      [] OTHER -> [say |-> "greeting", args |-> NoArgs]

finalStage(stage) == stage \in {"finalAgreement", "noSaree", "ended"}

\* generateConversationalTwiML redirecting to the attempt it was given
generateConversationalTwiML_SameAttempt(stage, cs, attempt) ==
    LET m == processedMessage(stage, cs)
    IN  IF finalStage(stage)
        THEN Doc(m.say, m.args, FALSE, "none", 0, "none", TRUE, "none", 0)
        ELSE IF attempt >= maxAttempts
        THEN Doc(m.say, m.args, TRUE, stage, attempt, "apology", TRUE, "none", 0)
        ELSE Doc(m.say, m.args, TRUE, stage, attempt, "fallback", FALSE,
                 stage, attempt)

generateConversationalTwiML(stage, cs, attempt) ==
    LET m == processedMessage(stage, cs)
    IN  IF finalStage(stage)
        THEN Doc(m.say, m.args, FALSE, "none", 0, "none", TRUE, "none", 0)
        ELSE IF attempt >= maxAttempts
        THEN Doc(m.say, m.args, TRUE, stage, attempt, "apology", TRUE, "none", 0)
        ELSE Doc(m.say, m.args, TRUE, stage, attempt, "fallback", FALSE,
                 stage, attempt + 1)

(* ------------------------------- state --------------------------------- *)
VARIABLES
    sessionExists,   \* MemStorage.sessions holds the session
    vendors,         \* Session.vendors is non-empty
    selectedVendor,  \* Session.selectedVendor is set
    journeyStatus,   \* Session.journeyStatus
    messages,        \* Session.messages: the content of each message, in order
    currentCall,     \* Session.currentCall (id 0: none)
    transaction,     \* Session.transaction (status "none": none)
    timers,          \* pending mock-call timers: [call, step]
    settlement,      \* calls made to the settlement collaborators
    voiceDoc,        \* the voice document last returned to the provider
    statusEvents,    \* status events delivered by the provider so far
    suspended,       \* payment handlers waiting at an await
    last             \* the last request handled

vars == <<sessionExists, vendors, selectedVendor, journeyStatus, messages,
          currentCall, transaction, timers, settlement, voiceDoc, statusEvents,
          suspended, last>>

NoState ==
    [stage |-> "none", attempts |-> 0, quantity |-> Undefined,
     initialPrice |-> Undefined, vendorPrice |-> Undefined, finalPrice |-> Undefined]

NoCall ==
    [id |-> 0, status |-> "none", duration |-> Undefined,
     negotiatedPrice |-> Undefined, completedAt |-> FALSE, conversationState |-> NoState]

NoTransaction ==
    [status |-> "none", amount |-> 0, totalUSDC |-> FALSE, coinbaseConversionId |-> FALSE,
     locusTransactionHash |-> FALSE, stripePayoutId |-> FALSE, completedAt |-> FALSE]

Request(op, stage, speech, digits, attempt, status, duration, flag) ==
    [op |-> op, stage |-> stage, speech |-> speech, digits |-> digits,
     attempt |-> attempt, status |-> status, duration |-> duration, flag |-> flag,
     answer |-> "none"]

\* res.type("text/xml"); res.send(twiml): the request is answered with a
\* voice document
sendTwiml(req) == [req EXCEPT !.answer = "twiml"]

\* res.sendStatus(200), on every path of the status callback
sendStatus(req) == [req EXCEPT !.answer = "ok"]

NoRequest == Request("none", "none", <<>>, "", 0, "none", 0, FALSE)

\* the state after construction: an empty store
Init ==
    /\ sessionExists = FALSE
    /\ vendors = FALSE
    /\ selectedVendor = FALSE
    /\ journeyStatus = "none"
    /\ messages = <<>>
    /\ currentCall = NoCall
    /\ transaction = NoTransaction
    /\ timers = {}
    /\ settlement = [convert |-> 0, transfer |-> 0, payout |-> 0]
    /\ voiceDoc = NoDoc
    /\ statusEvents = 0
    /\ suspended = <<>>
    /\ last = NoRequest

\* storage.addMessage, one or more times
addMessages(ms) == messages' = messages \o ms

\* the handler may run: the bound on Session.messages
Room == Len(messages) < MaxMessages

(* ------------------------- chat, select, initiate ---------------------- *)
\* POST /api/chat: creates the session when missing; a search replaces the
\* vendors and moves the journey to selecting-vendor
Chat(wantToSearch) ==
    /\ Room
    /\ sessionExists' = TRUE
    /\ addMessages(<<"user", "assistant">>)
    /\ vendors' = (vendors \/ wantToSearch)
    /\ journeyStatus' = IF wantToSearch THEN "selecting-vendor"
                        ELSE IF sessionExists THEN journeyStatus ELSE "chatting"
    /\ UNCHANGED <<statusEvents, suspended>>
    /\ last' = Request("chat", "none", <<>>, "", 0, "none", 0, wantToSearch)
    /\ UNCHANGED <<selectedVendor, currentCall, transaction, timers, settlement, voiceDoc>>

\* POST /api/vendors/select
SelectVendor ==
    /\ Room
    /\ sessionExists /\ vendors
    /\ selectedVendor' = TRUE
    /\ journeyStatus' = "calling-vendor"
    /\ addMessages(<<"vendor-selected">>)
    /\ UNCHANGED <<statusEvents, suspended>>
    /\ last' = Request("select", "none", <<>>, "", 0, "none", 0, FALSE)
    /\ UNCHANGED <<sessionExists, vendors, currentCall, transaction, timers, settlement, voiceDoc>>

UserBudgets == {8000, 0}

\* POST /api/calls/initiate (USE_MOCK_CALL = true): a new call replaces the
\* current one, the first mock timer is scheduled
InitiateCall(userBudget) ==
    /\ sessionExists /\ selectedVendor
    /\ currentCall.id < MaxCalls
    /\ currentCall' =
         [id |-> currentCall.id + 1, status |-> "ringing", duration |-> Undefined,
          negotiatedPrice |-> Undefined, completedAt |-> FALSE,
          conversationState |->
             [stage |-> "greeting", attempts |-> 0, quantity |-> Some(5),
              initialPrice |-> Some(userBudget), vendorPrice |-> Undefined,
              finalPrice |-> Undefined]]
    /\ timers' = timers \cup {[call |-> currentCall.id + 1, step |-> 1]}
    /\ voiceDoc' = generateConversationalTwiML("greeting", currentCall'.conversationState, 1)
    /\ UNCHANGED <<statusEvents, suspended>>
    /\ last' = Request("initiate", "none", <<>>, "", 0, "none", userBudget, FALSE)
    /\ UNCHANGED <<sessionExists, vendors, selectedVendor, journeyStatus, messages,
                   transaction, settlement>>

(* ---------------------------- mock call timers ------------------------- *)
\* timers of one delay fire in the order they were set
timerDue(t) ==
    /\ t \in timers
    /\ \A u \in timers : u.step = t.step => u.call >= t.call

MockDiscounts == {10, 29}

\* first timer: storage.updateCall(sessionId, {status: "in-progress"}), the
\* negotiating message, the second timer
MockInProgress(t) ==
    /\ Room
    /\ timerDue(t) /\ t.step = 1
    /\ currentCall' = [currentCall EXCEPT !.status = "in-progress"]
    /\ addMessages(<<"mock-negotiating">>)
    /\ timers' = (timers \ {t}) \cup {[call |-> t.call, step |-> 2]}
    /\ UNCHANGED <<statusEvents, suspended>>
    /\ last' = Request("timer", "none", <<>>, "", t.step, "none", 0, FALSE)
    /\ UNCHANGED <<sessionExists, vendors, selectedVendor, journeyStatus, transaction,
                   settlement, voiceDoc>>

\* second timer: status negotiating, the third timer
MockNegotiating(t) ==
    /\ timerDue(t) /\ t.step = 2
    /\ currentCall' = [currentCall EXCEPT !.status = "negotiating"]
    /\ timers' = (timers \ {t}) \cup {[call |-> t.call, step |-> 3]}
    /\ UNCHANGED <<statusEvents, suspended>>
    /\ last' = Request("timer", "none", <<>>, "", t.step, "none", 0, FALSE)
    /\ UNCHANGED <<sessionExists, vendors, selectedVendor, journeyStatus, messages,
                   transaction, settlement, voiceDoc>>

\* third timer: the call completes with a negotiated price, a Transaction
\* awaiting approval is stored, the journey moves to processing-payment
MockCompleted(t, discount) ==
    /\ Room
    /\ timerDue(t) /\ t.step = 3
    /\ LET negotiatedPrice == 120 * (100 - discount)
       IN  /\ currentCall' = [currentCall EXCEPT
                                !.status = "completed", !.duration = Some(45),
                                !.negotiatedPrice = Some(negotiatedPrice),
                                !.completedAt = TRUE]
           /\ transaction' = [status |-> "awaiting-approval", amount |-> negotiatedPrice,
                              totalUSDC |-> FALSE, coinbaseConversionId |-> FALSE,
                              locusTransactionHash |-> FALSE, stripePayoutId |-> FALSE,
                              completedAt |-> FALSE]
    /\ journeyStatus' = "processing-payment"
    /\ addMessages(<<"mock-success">>)
    /\ timers' = timers \ {t}
    /\ UNCHANGED <<statusEvents, suspended>>
    /\ last' = Request("timer", "none", <<>>, "", t.step, "none", discount, FALSE)
    /\ UNCHANGED <<sessionExists, vendors, selectedVendor, settlement, voiceDoc>>

(* ----------------------------- twiml endpoint -------------------------- *)
StageParams == ValidStages \cup {"bogus"} \cup MarkupNames

\* ALL /api/calls/twiml/:sessionId/:callId/:stage?attempt=n
Twiml(stage, attempt) ==
    /\ voiceDoc' = IF ~sessionExists \/ currentCall.id = 0
                   THEN twimlErrorDoc
                   ELSE generateConversationalTwiML(stage, currentCall.conversationState,
                                                    attempt)
    /\ UNCHANGED <<statusEvents, suspended>>
    /\ last' = sendTwiml(Request("twiml", stage, <<>>, "", attempt, "none", 0, FALSE))
    /\ UNCHANGED <<sessionExists, vendors, selectedVendor, journeyStatus, messages,
                   currentCall, transaction, timers, settlement>>

(* ----------------------------- gather endpoint ------------------------- *)
\* gatherTimeout leaving the journey where it is
gatherTimeout_NoReset(content) ==
    /\ Room
    /\ currentCall' = [currentCall EXCEPT !.status = "timeout", !.completedAt = TRUE]
    /\ UNCHANGED journeyStatus
    /\ addMessages(<<content>>)
    /\ voiceDoc' = timeoutDoc

\* both timeout branches: call status timeout, journey reset, one message
gatherTimeout(content) ==
    /\ Room
    /\ currentCall' = [currentCall EXCEPT !.status = "timeout", !.completedAt = TRUE]
    /\ journeyStatus' = "selecting-vendor"
    /\ addMessages(<<content>>)
    /\ voiceDoc' = timeoutDoc

\* the state the turn persists on the call
persistTurn(call, r) ==
    [call EXCEPT !.conversationState = [r.cs EXCEPT !.stage = r.nextStage],
                 !.negotiatedPrice = r.cs.finalPrice]

\* POST /api/calls/gather/:sessionId/:callId/:stage (again: the provider
\* delivers the request a second time)
Gather(stage, speechResult, digits, again) ==
    /\ currentCall.conversationState.attempts < MaxCounter
    /\ UNCHANGED <<statusEvents, suspended>>
    /\ last' = sendTwiml(Request("gather", stage, speechResult, digits, 0, "none", 0,
                                 again))
    /\ UNCHANGED <<sessionExists, vendors, selectedVendor, transaction, timers, settlement>>
    /\ IF stage \notin ValidStages \/ ~sessionExists \/ currentCall.id = 0
       THEN /\ voiceDoc' = gatherErrorDoc
            /\ UNCHANGED <<journeyStatus, messages, currentCall>>
       ELSE LET speech == toLowerCase(speechResult)
                cs == initConversationState(currentCall.conversationState)
            IN  IF ~hasInput(speech, digits) /\ cs.attempts >= maxAttempts
                THEN gatherTimeout("timeout-unresponsive-call")
                ELSE LET r == stageSwitch(stage, cs, speech, digits)
                     IN  IF r.nextStage = "timeout"
                         THEN gatherTimeout("timeout-unresponsive")
                         ELSE /\ currentCall' = persistTurn(currentCall, r)
                              /\ voiceDoc' = generateConversationalTwiML(
                                                r.nextStage, r.cs, 1)
                              /\ UNCHANGED <<journeyStatus, messages>>

(* ------------------------- call-status webhook ------------------------- *)
ProviderStatuses ==
    {"no-answer", "busy", "failed", "canceled", "completed", "ringing",
     "in-progress", "answered", "initiated", "queued", "unknown"}

Durations == {5, 10, 59, 60}

\* classify asking for the price before the duration
classify_PriceFirst(callStatus, duration, negotiatedPrice) ==
    LET out(m, u, r, p) == [mappedStatus |-> m, userMessage |-> u,
                            shouldResetJourney |-> r, toPayment |-> p]
    IN  IF callStatus \in {"no-answer", "busy"}
        THEN out("no-answer", "vendor-no-answer", TRUE, FALSE)
        ELSE IF callStatus = "failed"
        THEN out("failed", "call-not-connected", TRUE, FALSE)
        ELSE IF callStatus = "canceled"
        THEN out("hung-up", "call-canceled", TRUE, FALSE)
        ELSE IF callStatus = "completed"
        THEN IF Truthy(negotiatedPrice)
             THEN out("completed", "negotiated-price", FALSE, TRUE)
             ELSE IF duration < 60
             THEN out("hung-up", "ended-before-negotiation", TRUE, FALSE)
             ELSE out("completed", "call-ended", TRUE, FALSE)
        ELSE IF callStatus = "ringing"
        THEN out("ringing", "none", FALSE, FALSE)
        ELSE IF callStatus \in {"in-progress", "answered"}
        THEN out("in-progress", "none", FALSE, FALSE)
        ELSE IF callStatus \in {"initiated", "queued"}
        THEN out("initiating", "none", FALSE, FALSE)
        ELSE out("failed", "none", FALSE, FALSE)

\* the classification of one status event: the mapped status, the message
\* (or "none"), whether the journey is reset, whether it moves to payment
classify(callStatus, duration, negotiatedPrice) ==
    LET out(m, u, r, p) == [mappedStatus |-> m, userMessage |-> u,
                            shouldResetJourney |-> r, toPayment |-> p]
    IN  IF callStatus \in {"no-answer", "busy"}
        THEN out("no-answer", "vendor-no-answer", TRUE, FALSE)
        ELSE IF callStatus = "failed"
        THEN out("failed", "call-not-connected", TRUE, FALSE)
        ELSE IF callStatus = "canceled"
        THEN out("hung-up", "call-canceled", TRUE, FALSE)
        ELSE IF callStatus = "completed"
        THEN IF duration < 10
             THEN out("hung-up", "vendor-hung-up", TRUE, FALSE)
             ELSE IF ~Truthy(negotiatedPrice) /\ duration < 60
             THEN out("hung-up", "ended-before-negotiation", TRUE, FALSE)
             ELSE IF Truthy(negotiatedPrice)
             THEN out("completed", "negotiated-price", FALSE, TRUE)
             ELSE out("completed", "call-ended", TRUE, FALSE)
        ELSE IF callStatus = "ringing"
        THEN out("ringing", "none", FALSE, FALSE)
        ELSE IF callStatus \in {"in-progress", "answered"}
        THEN out("in-progress", "none", FALSE, FALSE)
        ELSE IF callStatus \in {"initiated", "queued"}
        THEN out("initiating", "none", FALSE, FALSE)
        ELSE out("failed", "none", FALSE, FALSE)

EndStatuses == {"completed", "hung-up", "no-answer", "failed", "timeout"}

\* POST /api/calls/webhook/:sessionId/:callId
Webhook(callStatus, duration) ==
    /\ statusEvents < MaxEvents
    /\ statusEvents' = statusEvents + 1
    /\ UNCHANGED suspended
    /\ last' = sendStatus(Request("webhook", "none", <<>>, "", currentCall.id,
                                  callStatus, duration, FALSE))
    /\ UNCHANGED <<sessionExists, vendors, selectedVendor, transaction, timers,
                   settlement, voiceDoc>>
    /\ IF ~sessionExists \/ currentCall.id = 0
       THEN UNCHANGED <<journeyStatus, messages, currentCall>>
       ELSE LET c == classify(callStatus, duration, currentCall.negotiatedPrice)
            IN  /\ c.userMessage # "none" => Room
                /\ currentCall' = [currentCall EXCEPT
                                     !.status = c.mappedStatus,
                                     !.duration = Some(duration),
                                     !.completedAt = (c.mappedStatus \in EndStatuses)]
                /\ journeyStatus' = IF c.shouldResetJourney THEN "selecting-vendor"
                                    ELSE IF c.toPayment THEN "processing-payment"
                                    ELSE journeyStatus
                /\ messages' = IF c.userMessage = "none" THEN messages
                               ELSE Append(messages, c.userMessage)

(* ------------------------------- payments ------------------------------ *)
Amounts == {9000, 50}

\* POST /api/payments/request-approval
RequestApproval(amount) ==
    /\ Room
    /\ UNCHANGED <<statusEvents, suspended>>
    /\ last' = Request("request-approval", "none", <<>>, "", 0, "none", amount, FALSE)
    /\ UNCHANGED <<sessionExists, vendors, selectedVendor, journeyStatus, currentCall,
                   timers, settlement, voiceDoc>>
    /\ IF ~sessionExists \/ ~selectedVendor
       THEN UNCHANGED <<transaction, messages>>
       ELSE /\ transaction' = [status |-> "awaiting-approval", amount |-> amount,
                               totalUSDC |-> TRUE, coinbaseConversionId |-> FALSE,
                               locusTransactionHash |-> FALSE, stripePayoutId |-> FALSE,
                               completedAt |-> FALSE]
            /\ addMessages(<<"approval-request">>)

\* coinbase.offRampUSDC throws when the amount does not cover the fee:
\* the amount is transaction.totalUSDC (amount / 83 + 1) or amount / 83
offRampThrows(tx, amount) ==
    IF tx.totalUSDC THEN tx.amount <= 0 ELSE amount <= 83

\* the catch block of the process handler
markFailed(tx) == IF tx.status = "none" THEN tx ELSE [tx EXCEPT !.status = "failed"]

\* A handler waiting at an await that leaves the event loop (a timer, a
\* network call): the process handler at the conversion or at the payout,
\* the process request an approve handler has sent, the approve handler
\* holding the answer to that request.
Waiting(handler, pc, caller, amount, ok) ==
    [handler |-> handler, pc |-> pc, caller |-> caller, amount |-> amount, ok |-> ok]

Remove(s, i) == SubSeq(s, 1, i - 1) \o SubSeq(s, i + 1, Len(s))

\* the process handler answers; an approve handler that sent the request
\* resumes with the answer
answer(rest, caller, ok) ==
    IF caller = "approve"
    THEN Append(rest, Waiting("approve", "response", "none", 0, ok))
    ELSE rest

\* The process handler from its first line to its first wait: rejected
\* (body, session, status), failed in the conversion, or waiting for the
\* conversion with the Transaction processing.
processStart(rest, caller, wellFormed, amount) ==
    LET started == IF transaction.status = "none"
                   THEN [status |-> "processing", amount |-> amount,
                         totalUSDC |-> FALSE, coinbaseConversionId |-> FALSE,
                         locusTransactionHash |-> FALSE, stripePayoutId |-> FALSE,
                         completedAt |-> FALSE]
                   ELSE [transaction EXCEPT !.status = "processing"]
    IN  /\ UNCHANGED <<journeyStatus, messages>>
        /\ IF ~wellFormed
           THEN /\ transaction' = markFailed(transaction)
                /\ suspended' = answer(rest, caller, FALSE)
                /\ UNCHANGED settlement
           ELSE IF ~sessionExists \/ ~selectedVendor
                   \/ (transaction.status # "none" /\ transaction.status # "approved")
           THEN /\ suspended' = answer(rest, caller, FALSE)
                /\ UNCHANGED <<transaction, settlement>>
           ELSE /\ settlement' = [settlement EXCEPT !.convert = @ + 1]
                /\ IF offRampThrows(started, amount)
                   THEN /\ transaction' = markFailed(started)
                        /\ suspended' = answer(rest, caller, FALSE)
                   ELSE /\ transaction' = started
                        /\ suspended' = Append(rest, Waiting("process", "convert", caller,
                                                             amount, FALSE))

\* POST /api/payments/process; a body that fails validation reaches the catch
\* block
ProcessPayment(wellFormed, amount) ==
    /\ settlement.convert < MaxSettlements
    /\ UNCHANGED statusEvents
    /\ last' = Request("process", "none", <<>>, "", 0, "none", amount, wellFormed)
    /\ UNCHANGED <<sessionExists, vendors, selectedVendor, currentCall, timers, voiceDoc>>
    /\ processStart(suspended, "direct", wellFormed, amount)

\* the process request sent by an approve handler arrives
ProcessArrives(i) ==
    /\ i \in DOMAIN suspended
    /\ suspended[i].handler = "process" /\ suspended[i].pc = "request"
    /\ settlement.convert < MaxSettlements
    /\ UNCHANGED statusEvents
    /\ last' = Request("process-sent", "none", <<>>, "", 0, "none", suspended[i].amount, TRUE)
    /\ UNCHANGED <<sessionExists, vendors, selectedVendor, currentCall, timers, voiceDoc>>
    /\ processStart(Remove(suspended, i), "approve", TRUE, suspended[i].amount)

\* the conversion returns: its id is recorded, the message appended and the
\* transfer requested
ProcessConverted(i) ==
    /\ Room
    /\ i \in DOMAIN suspended
    /\ suspended[i].handler = "process" /\ suspended[i].pc = "convert"
    /\ transaction' = [transaction EXCEPT !.coinbaseConversionId = TRUE]
    /\ addMessages(<<"converting">>)
    /\ settlement' = [settlement EXCEPT !.transfer = @ + 1]
    /\ suspended' = [suspended EXCEPT ![i].pc = "transfer"]
    /\ UNCHANGED statusEvents
    /\ last' = Request("process-converted", "none", <<>>, "", 0, "none", 0, FALSE)
    /\ UNCHANGED <<sessionExists, vendors, selectedVendor, journeyStatus, currentCall,
                   timers, voiceDoc>>

\* the transfer returns (a failed transfer is answered with a simulated
\* one): its hash is recorded and the payout requested
ProcessTransferred(i) ==
    /\ i \in DOMAIN suspended
    /\ suspended[i].handler = "process" /\ suspended[i].pc = "transfer"
    /\ transaction' = [transaction EXCEPT !.locusTransactionHash = TRUE]
    /\ settlement' = [settlement EXCEPT !.payout = @ + 1]
    /\ suspended' = [suspended EXCEPT ![i].pc = "payout"]
    /\ UNCHANGED statusEvents
    /\ last' = Request("process-transferred", "none", <<>>, "", 0, "none", 0, FALSE)
    /\ UNCHANGED <<sessionExists, vendors, selectedVendor, journeyStatus, messages,
                   currentCall, timers, voiceDoc>>

\* the payout returns or throws: the Transaction completed and the journey
\* with it, or the catch block
ProcessPaid(i, payoutThrows) ==
    /\ Room
    /\ i \in DOMAIN suspended
    /\ suspended[i].handler = "process" /\ suspended[i].pc = "payout"
    /\ suspended' = answer(Remove(suspended, i), suspended[i].caller, ~payoutThrows)
    /\ UNCHANGED statusEvents
    /\ last' = Request("process-paid", "none", <<>>, "", 0, "none", 0, ~payoutThrows)
    /\ UNCHANGED <<sessionExists, vendors, selectedVendor, currentCall, timers,
                   settlement, voiceDoc>>
    /\ IF payoutThrows
       THEN /\ transaction' = markFailed(transaction)
            /\ UNCHANGED <<journeyStatus, messages>>
       ELSE /\ transaction' = [transaction EXCEPT !.stripePayoutId = TRUE,
                                                  !.status = "completed",
                                                  !.completedAt = TRUE]
            /\ journeyStatus' = "completed"
            /\ addMessages(<<"payment-success">>)

\* POST /api/payments/approve: approval marks the Transaction approved and
\* sends the process request; rejection resets the journey
ApprovePayment(approved) ==
    /\ Room
    /\ UNCHANGED statusEvents
    /\ last' = Request("approve", "none", <<>>, "", 0, "none", 0, approved)
    /\ UNCHANGED <<sessionExists, vendors, selectedVendor, currentCall, timers,
                   settlement, voiceDoc>>
    /\ IF ~sessionExists \/ transaction.status # "awaiting-approval"
       THEN UNCHANGED <<transaction, journeyStatus, messages, suspended>>
       ELSE IF approved
       THEN /\ transaction' = [transaction EXCEPT !.status = "approved"]
            /\ addMessages(<<"payment-approved">>)
            /\ suspended' = Append(suspended, Waiting("process", "request", "approve",
                                                      transaction.amount, FALSE))
            /\ UNCHANGED journeyStatus
       ELSE /\ transaction' = [transaction EXCEPT !.status = "rejected"]
            /\ journeyStatus' = "selecting-vendor"
            /\ addMessages(<<"payment-cancelled">>)
            /\ UNCHANGED suspended

\* the approve handler resumes with the answer to its process request and
\* marks the Transaction failed when that is not a success
ApproveResumes(i) ==
    /\ i \in DOMAIN suspended
    /\ suspended[i].handler = "approve"
    /\ transaction' = IF suspended[i].ok THEN transaction
                      ELSE [transaction EXCEPT !.status = "failed"]
    /\ suspended' = Remove(suspended, i)
    /\ UNCHANGED statusEvents
    /\ last' = Request("approve-resumed", "none", <<>>, "", 0, "none", 0, suspended[i].ok)
    /\ UNCHANGED <<sessionExists, vendors, selectedVendor, journeyStatus, messages,
                   currentCall, timers, settlement, voiceDoc>>

(* ------------------- gather and webhook, await by await ----------------- *)
\* The same two handlers with a step for every await. Each await is on a
\* MemStorage method, an async function that awaits nothing: the operation
\* is done when it is called and the handler continues as a microtask.
sessionView == <<currentCall, journeyStatus, messages>>

\* a handler between two awaits: its request, what it computed, and the
\* session as its last step left it
Frame(handler, pc, req, out, seen) ==
    [handler |-> handler, pc |-> pc, req |-> req, out |-> out, seen |-> seen]

IsFrame(f) == f.handler \in {"gather", "webhook"}

\* the event loop starts the next request when no microtask is pending
loopIdle_Busy == TRUE

loopIdle == \A i \in DOMAIN suspended : ~IsFrame(suspended[i])

\* frame i continues at pc with the session as this step leaves it
continueAt(i, pc) ==
    suspended' = [suspended EXCEPT ![i].pc = pc, ![i].seen = sessionView']

frameAt(i, handler, pc) ==
    /\ i \in DOMAIN suspended
    /\ suspended[i].handler = handler /\ suspended[i].pc = pc

\* the gather handler up to `await storage.getSession`
GatherArrives(stage, speechResult, digits) ==
    /\ loopIdle
    /\ currentCall.conversationState.attempts < MaxCounter
    /\ UNCHANGED statusEvents
    /\ last' = Request("gather", stage, speechResult, digits, 0, "none", 0, FALSE)
    /\ UNCHANGED <<sessionExists, vendors, selectedVendor, journeyStatus, messages,
                   currentCall, transaction, timers, settlement>>
    /\ IF stage \notin ValidStages
       THEN voiceDoc' = gatherErrorDoc /\ UNCHANGED suspended
       ELSE /\ suspended' = Append(suspended,
                                   Frame("gather", "session", last', "none", sessionView))
            /\ UNCHANGED voiceDoc

\* from the session read to the first store write: the error document, the
\* turn persisted and answered, or the call marked timed out
GatherResumes(i) ==
    /\ frameAt(i, "gather", "session")
    /\ UNCHANGED statusEvents
    /\ last' = [suspended[i].req EXCEPT !.op = "gather-resumed"]
    /\ UNCHANGED <<sessionExists, vendors, selectedVendor, journeyStatus, messages,
                   transaction, timers, settlement>>
    /\ LET req == suspended[i].req
           speech == toLowerCase(req.speech)
           cs == initConversationState(currentCall.conversationState)
           r == stageSwitch(req.stage, cs, speech, req.digits)
       IN  IF ~sessionExists \/ currentCall.id = 0
           THEN /\ voiceDoc' = gatherErrorDoc
                /\ suspended' = Remove(suspended, i)
                /\ UNCHANGED currentCall
           ELSE IF (~hasInput(speech, req.digits) /\ cs.attempts >= maxAttempts)
                   \/ r.nextStage = "timeout"
           THEN /\ currentCall' = [currentCall EXCEPT !.status = "timeout",
                                                      !.completedAt = TRUE]
                /\ continueAt(i, "journey")
                /\ UNCHANGED voiceDoc
           ELSE /\ currentCall' = persistTurn(currentCall, r)
                /\ voiceDoc' = generateConversationalTwiML(r.nextStage, r.cs, 1)
                /\ suspended' = Remove(suspended, i)

\* timed out: storage.updateSession
GatherResets(i) ==
    /\ frameAt(i, "gather", "journey")
    /\ journeyStatus' = "selecting-vendor"
    /\ UNCHANGED statusEvents
    /\ last' = [suspended[i].req EXCEPT !.op = "gather-reset"]
    /\ UNCHANGED <<sessionExists, vendors, selectedVendor, messages, currentCall,
                   transaction, timers, settlement, voiceDoc>>
    /\ continueAt(i, "message")

\* timed out: storage.addMessage, then the hang-up document
GatherGivesUp(i) ==
    /\ Room
    /\ frameAt(i, "gather", "message")
    /\ addMessages(<<"timeout-unresponsive">>)
    /\ voiceDoc' = timeoutDoc
    /\ suspended' = Remove(suspended, i)
    /\ UNCHANGED statusEvents
    /\ last' = [suspended[i].req EXCEPT !.op = "gather-gave-up"]
    /\ UNCHANGED <<sessionExists, vendors, selectedVendor, journeyStatus, currentCall,
                   transaction, timers, settlement>>

\* the webhook handler up to `await storage.getSession`
WebhookArrives(callStatus, duration) ==
    /\ loopIdle
    /\ statusEvents < MaxEvents
    /\ statusEvents' = statusEvents + 1
    /\ last' = Request("webhook", "none", <<>>, "", currentCall.id, callStatus,
                       duration, FALSE)
    /\ suspended' = Append(suspended,
                           Frame("webhook", "session", last', "none", sessionView))
    /\ UNCHANGED <<sessionExists, vendors, selectedVendor, journeyStatus, messages,
                   currentCall, transaction, timers, settlement, voiceDoc>>

\* storage.updateCall of the webhook handler
webhookCall(c, duration) ==
    [currentCall EXCEPT !.status = c.mappedStatus,
                        !.duration = Some(duration),
                        !.completedAt = (c.mappedStatus \in EndStatuses)]

\* where the webhook handler continues after storage.updateCall
afterCall(c) ==
    IF c.shouldResetJourney THEN "journey"
    ELSE IF c.userMessage # "none" THEN "message" ELSE "done"

\* from the session read to the first store write: the event is classified
\* on the call as it is now; the hand-off to payment is written first
WebhookResumes(i) ==
    /\ frameAt(i, "webhook", "session")
    /\ UNCHANGED statusEvents
    /\ last' = [suspended[i].req EXCEPT !.op = "webhook-resumed"]
    /\ UNCHANGED <<sessionExists, vendors, selectedVendor, messages, transaction,
                   timers, settlement, voiceDoc>>
    /\ LET req == suspended[i].req
           c == classify(req.status, req.duration, currentCall.negotiatedPrice)
       IN  IF ~sessionExists \/ currentCall.id = 0
           THEN /\ suspended' = Remove(suspended, i)
                /\ UNCHANGED <<currentCall, journeyStatus>>
           ELSE IF c.toPayment
           THEN /\ journeyStatus' = "processing-payment"
                /\ UNCHANGED currentCall
                /\ suspended' = [suspended EXCEPT ![i].pc = "call", ![i].out = c,
                                                  ![i].seen = sessionView']
           ELSE /\ currentCall' = webhookCall(c, req.duration)
                /\ UNCHANGED journeyStatus
                /\ suspended' = IF afterCall(c) = "done" THEN Remove(suspended, i)
                                ELSE [suspended EXCEPT ![i].pc = afterCall(c),
                                                       ![i].out = c,
                                                       ![i].seen = sessionView']

\* storage.updateCall after the hand-off to payment
WebhookUpdatesCall(i) ==
    /\ frameAt(i, "webhook", "call")
    /\ currentCall' = webhookCall(suspended[i].out, suspended[i].req.duration)
    /\ UNCHANGED statusEvents
    /\ last' = [suspended[i].req EXCEPT !.op = "webhook-call"]
    /\ UNCHANGED <<sessionExists, vendors, selectedVendor, journeyStatus, messages,
                   transaction, timers, settlement, voiceDoc>>
    /\ continueAt(i, afterCall(suspended[i].out))

\* storage.updateSession: the journey back to selecting-vendor
WebhookResets(i) ==
    /\ frameAt(i, "webhook", "journey")
    /\ journeyStatus' = "selecting-vendor"
    /\ UNCHANGED statusEvents
    /\ last' = [suspended[i].req EXCEPT !.op = "webhook-reset"]
    /\ UNCHANGED <<sessionExists, vendors, selectedVendor, messages, currentCall,
                   transaction, timers, settlement, voiceDoc>>
    /\ continueAt(i, "message")

\* storage.addMessage, then the acknowledgement
WebhookNotifies(i) ==
    /\ Room
    /\ frameAt(i, "webhook", "message")
    /\ addMessages(<<suspended[i].out.userMessage>>)
    /\ suspended' = Remove(suspended, i)
    /\ UNCHANGED statusEvents
    /\ last' = [suspended[i].req EXCEPT !.op = "webhook-notified"]
    /\ UNCHANGED <<sessionExists, vendors, selectedVendor, journeyStatus, currentCall,
                   transaction, timers, settlement, voiceDoc>>

(* ---------------------------- specification ---------------------------- *)
Transcripts ==
    {<<>>,
     <<Word("YES")>>,
     <<Word("yes"), Numeral(<<9, 0, 0, 0>>)>>,
     <<Word("haan")>>,
     <<Word("nahi")>>,
     <<Word("hi_theek")>>,
     <<Numeral(<<3>>), Word("saaree"), Numeral(<<9, 0, 0, 0>>)>>,
     <<Word("dena"), Numeral(<<9, 0, 0, 1>>)>>,
     <<Numeral(<<0>>)>>,
     <<Word("saaree")>>,
     <<Word("know")>>}

DigitInputs == {"", "1", "2", "9"}

\* the input of a gather turn: a transcript, keypad digits, or both
GatherInputs ==
    {<<t, "">> : t \in Transcripts} \cup {<<<<>>, d>> : d \in DigitInputs}
        \cup {<<<<Word("nahi")>>, "1">>, <<<<Word("saaree")>>, "2">>}

AttemptParams == 1..4

\* the session's first call
FirstCall(userBudget) == currentCall.id = 0 /\ InitiateCall(userBudget)

\* the provider follows the Redirect of the document it holds
FollowRedirect ==
    /\ voiceDoc.redirectStage # "none"
    /\ Twiml(voiceDoc.redirectStage, voiceDoc.redirectAttempt)

\* every handler, every request
Next ==
    \/ \E w \in BOOLEAN : Chat(w)
    \/ SelectVendor
    \/ \E b \in UserBudgets : InitiateCall(b)
    \/ \E t \in timers : MockInProgress(t)
    \/ \E t \in timers : MockNegotiating(t)
    \/ \E t \in timers, d \in MockDiscounts : MockCompleted(t, d)
    \/ \E st \in StageParams, a \in AttemptParams : Twiml(st, a)
    \/ \E st \in StageParams, in \in GatherInputs, ag \in BOOLEAN :
          Gather(st, in[1], in[2], ag)
    \/ \E cs \in ProviderStatuses, d \in Durations : Webhook(cs, d)
    \/ \E a \in Amounts : RequestApproval(a)
    \/ \E wf \in BOOLEAN, a \in Amounts : ProcessPayment(wf, a)
    \/ \E ap \in BOOLEAN : ApprovePayment(ap)
    \/ \E i \in DOMAIN suspended : ProcessArrives(i)
    \/ \E i \in DOMAIN suspended : ProcessConverted(i)
    \/ \E i \in DOMAIN suspended : ProcessTransferred(i)
    \/ \E i \in DOMAIN suspended, pt \in BOOLEAN : ProcessPaid(i, pt)
    \/ \E i \in DOMAIN suspended : ApproveResumes(i)

Spec == Init /\ [][Next]_vars

\* the session is opened and a vendor selected before the call is placed
OpenChat(wantToSearch) == currentCall.id = 0 /\ Chat(wantToSearch)

FirstSelect == currentCall.id = 0 /\ ~selectedVendor /\ SelectVendor

\* The stages a gather request names while the provider follows its
\* documents: the action of the Gather it holds or the call's stored stage;
\* without a call, a stage that does not exist.
RequestStages ==
    (IF voiceDoc.gather THEN {voiceDoc.stage} ELSE {})
        \cup (IF currentCall.id # 0 THEN {currentCall.conversationState.stage}
              ELSE {"bogus"})

GatherTurn ==
    \E st \in RequestStages, in \in GatherInputs : Gather(st, in[1], in[2], FALSE)

\* the provider delivers the gather request it delivered last once more
Redelivery ==
    /\ last.op = "gather" /\ ~last.flag
    /\ Gather(last.stage, last.speech, last.digits, TRUE)

\* The negotiation of the session's first call: the handlers that read or
\* write ConversationState, and the provider following its documents.
NextGather ==
    \/ \E w \in BOOLEAN : OpenChat(w)
    \/ FirstSelect
    \/ \E b \in UserBudgets : FirstCall(b)
    \/ FollowRedirect
    \/ GatherTurn
    \/ Redelivery

SpecGather == Init /\ [][NextGather]_vars

\* CallDuration comes with the completed event; without it the handler
\* reads 0
StatusEvents ==
    {<<"completed", d>> : d \in Durations}
        \cup {<<cs, 0>> : cs \in ProviderStatuses \ {"completed"}}

\* The status events of the session's first call (placed as a mock call,
\* so its timers run beside the provider's events), any status at any time.
NextStatus ==
    \/ \E w \in BOOLEAN : OpenChat(w)
    \/ FirstSelect
    \/ \E b \in UserBudgets : FirstCall(b)
    \/ \E t \in timers : MockInProgress(t)
    \/ \E t \in timers : MockNegotiating(t)
    \/ \E t \in timers, d \in MockDiscounts : MockCompleted(t, d)
    \/ \E e \in StatusEvents : Webhook(e[1], e[2])

SpecStatus == Init /\ [][NextStatus]_vars

\* The payment of a session with a selected vendor: approval requested
\* (by the client, or by the mock call when it completes), decided, and the
\* process endpoint called directly; handlers resume in any order.
NextPayment ==
    \/ \E w \in BOOLEAN : OpenChat(w)
    \/ FirstSelect
    \/ \E b \in UserBudgets : FirstCall(b)
    \/ \E t \in timers : MockInProgress(t)
    \/ \E t \in timers : MockNegotiating(t)
    \/ \E t \in timers, d \in MockDiscounts : MockCompleted(t, d)
    \/ \E a \in Amounts : RequestApproval(a)
    \/ \E wf \in BOOLEAN, a \in Amounts : ProcessPayment(wf, a)
    \/ \E ap \in BOOLEAN : ApprovePayment(ap)
    \/ \E i \in DOMAIN suspended : ProcessArrives(i)
    \/ \E i \in DOMAIN suspended : ProcessConverted(i)
    \/ \E i \in DOMAIN suspended : ProcessTransferred(i)
    \/ \E i \in DOMAIN suspended, pt \in BOOLEAN : ProcessPaid(i, pt)
    \/ \E i \in DOMAIN suspended : ApproveResumes(i)

SpecPayment == Init /\ [][NextPayment]_vars

\* The simulated calls of a session: a call may be initiated while the
\* timers of the one before are pending.
NextMock ==
    \/ \E w \in BOOLEAN : OpenChat(w)
    \/ FirstSelect
    \/ \E b \in UserBudgets : InitiateCall(b)
    \/ \E t \in timers : MockInProgress(t)
    \/ \E t \in timers : MockNegotiating(t)
    \/ \E t \in timers, d \in MockDiscounts : MockCompleted(t, d)

SpecMock == Init /\ [][NextMock]_vars

\* a vendor who answers on the keypad or not at all
KeypadInputs == {<<<<>>, "">>, <<<<>>, "1">>, <<<<>>, "2">>}

\* status events beside the gather turns: the call ends (with each
\* duration), rings, or is busy
LoopEvents ==
    {e \in StatusEvents : e[1] \in {"completed", "ringing", "busy"}}

\* Gather turns and status events of the session's first call as the event
\* loop runs them: requests arrive in any order, a handler's continuations
\* run before the next request is started.
NextLoop ==
    \/ \E w \in BOOLEAN : loopIdle /\ OpenChat(w)
    \/ loopIdle /\ FirstSelect
    \/ \E b \in UserBudgets : loopIdle /\ FirstCall(b)
    \/ \E st \in RequestStages, in \in KeypadInputs : GatherArrives(st, in[1], in[2])
    \/ \E i \in DOMAIN suspended : GatherResumes(i)
    \/ \E i \in DOMAIN suspended : GatherResets(i)
    \/ \E i \in DOMAIN suspended : GatherGivesUp(i)
    \/ \E e \in LoopEvents : WebhookArrives(e[1], e[2])
    \/ \E i \in DOMAIN suspended : WebhookResumes(i)
    \/ \E i \in DOMAIN suspended : WebhookUpdatesCall(i)
    \/ \E i \in DOMAIN suspended : WebhookResets(i)
    \/ \E i \in DOMAIN suspended : WebhookNotifies(i)

SpecLoop == Init /\ [][NextLoop]_vars

\* stage names of voice-document requests: with and without a Gather, the
\* timeout stage, and two names that are no stage
RenderedStages ==
    {"greeting", "negotiatePrice", "finalAgreement", "timeout", "bogus"} \cup MarkupNames

\* stage names of gather requests
AnsweredStages == {"greeting", "negotiatePrice", "bogus"}

\* a first attempt and one at the threshold
VoiceAttempts == {1, maxAttempts}

\* no input, or the key 1
VoiceInputs == {<<<<>>, "">>, <<<<>>, "1">>}

\* a status that is not final and one that is
VoiceEvents == {<<"ringing", 0>>, <<"completed", 60>>}

\* The telephony endpoints of the session's first call, open to any request:
\* any stage name and attempt number, before and after the call is placed.
NextVoice ==
    \/ OpenChat(TRUE)
    \/ FirstSelect
    \/ FirstCall(8000)
    \/ \E st \in RenderedStages, a \in VoiceAttempts : Twiml(st, a)
    \/ \E st \in AnsweredStages, in \in VoiceInputs : Gather(st, in[1], in[2], FALSE)
    \/ \E e \in VoiceEvents : Webhook(e[1], e[2])

SpecVoice == Init /\ [][NextVoice]_vars

(* ------------------------ negotiation: properties ---------------------- *)
stored == currentCall.conversationState

\* a gather request that reached the stage switch of the handler
GatherStep(stage) ==
    /\ last'.op = "gather" /\ last'.stage = stage
    /\ sessionExists /\ currentCall.id # 0

\* the input of the request just handled
EmptyInput(req) == req.speech = <<>> /\ req.digits = ""

Says(req, words) ==
    \E i \in DOMAIN req.speech :
        KeywordsIn(LowerWord(req.speech[i].w)) \cap words # {}

NumbersSaid(req) == matchDigits(req.speech)

NonTerminalStages == {"greeting", "askRequirements", "negotiatePrice", "counterOffer"}

StageRank(stage) ==
    CASE stage = "greeting" -> 0
      [] stage = "askRequirements" -> 1
      [] stage = "negotiatePrice" -> 2
      [] stage = "counterOffer" -> 3
      [] OTHER -> 4

\* an input that is empty, or at greeting neither a yes nor a no
FailedInput(req) ==
    \/ EmptyInput(req)
    \/ /\ req.stage = "greeting"
       /\ req.digits \notin {"1", "2"}
       /\ ~Says(req, {"yes", "haan", "hi_haan", "no", "nahi", "hi_nahin"})

\* the turn ended the dialog: the document hangs up without a Gather, on
\* noSaree or with the call marked timeout
ForcedTerminal ==
    /\ voiceDoc'.hangup /\ ~voiceDoc'.gather
    /\ \/ stored'.stage = "noSaree"
       \/ currentCall'.status = "timeout" /\ voiceDoc' = timeoutDoc

C2_AttemptsResetOnTransition ==
    [][\A st \in ValidStages :
         GatherStep(st) =>
            /\ stored'.stage # stored.stage => stored'.attempts = 0
            /\ stored'.stage = stored.stage =>
                  ~(stored.attempts # 0 /\ stored'.attempts = 0)]_vars

\* C3 (as claimed): the stored attempts never exceed maxAttempts.
C3_AttemptsBounded == stored.attempts <= maxAttempts

\* the reply is a yes at negotiatePrice: digit 1, or "yes" / "haan" in
\* Devanagari in the transcript
SaysYesToPrice(req) == req.digits = "1" \/ Says(req, {"yes", "hi_haan"})

\* C4: at negotiatePrice a non-empty reply that is not a yes gives stage
\* counterOffer, attempts 0, vendorPrice the first number of the transcript
\* (initialPrice + 2000 when it has none) and finalPrice the midpoint of
\* initialPrice and vendorPrice, a half rounded up.
C4_CounterIsMidpoint ==
    [][(GatherStep("negotiatePrice") /\ ~EmptyInput(last') /\ ~SaysYesToPrice(last')) =>
          LET ip == stored'.initialPrice[1]
              vp == stored'.vendorPrice[1]
              fp == stored'.finalPrice[1]
          IN  /\ stored'.stage = "counterOffer"
              /\ stored'.attempts = 0
              /\ stored'.initialPrice # Undefined
              /\ stored'.vendorPrice # Undefined
              /\ stored'.finalPrice # Undefined
              /\ vp = IF NumbersSaid(last') # <<>>
                      THEN parseInt(NumbersSaid(last')[1])
                      ELSE ip + 2000
              /\ 2 * fp - (ip + vp) \in {0, 1}]_vars

\* 8000 against a stated 9001: the counter-offer is 8501
C4_Witness ==
    /\ last.op = "gather" /\ last.stage = "negotiatePrice"
    /\ NumbersSaid(last) = <<<<9, 0, 0, 1>>>>
    /\ stored.stage = "counterOffer"
    /\ stored.initialPrice = Some(8000)
    /\ stored.vendorPrice = Some(9001)
    /\ stored.finalPrice = Some(8501)

\* C5 (as claimed): at negotiatePrice a non-empty reply that is not a yes and
\* holds no number keeps the vendorPrice recorded at askRequirements, and
\* finalPrice is the midpoint of initialPrice and that price.
C5_RecordedVendorPriceKept ==
    [][(/\ GatherStep("negotiatePrice") /\ ~EmptyInput(last') /\ ~SaysYesToPrice(last')
        /\ NumbersSaid(last') = <<>>
        /\ stored.vendorPrice # Undefined) =>
          /\ stored'.stage = "counterOffer"
          /\ stored'.vendorPrice = stored.vendorPrice
          /\ stored'.finalPrice =
                Some(roundHalf(stored'.initialPrice[1], stored.vendorPrice[1]))]_vars

C7_CounterOfferAlwaysCloses ==
    [][(GatherStep("counterOffer") /\ stored.stage = "counterOffer") =>
          stored'.stage = "finalAgreement"]_vars

\* C7 (amended): a gather turn on counterOffer with any non-empty input
\* gives finalAgreement with attempts 0 in that turn; with empty input it
\* stays on counterOffer with attempts one higher, or is timed out.
C7_NonEmptyReplyCloses ==
    [][GatherStep("counterOffer") =>
          IF ~EmptyInput(last')
          THEN stored'.stage = "finalAgreement" /\ stored'.attempts = 0
          ELSE \/ /\ stored'.stage = "counterOffer"
                  /\ stored'.attempts = stored.attempts + 1
                  /\ stored'.attempts < maxAttempts
               \/ /\ currentCall'.status = "timeout"
                  /\ voiceDoc' = timeoutDoc
                  /\ stored' = stored]_vars

\* a reply that is not a yes closed the negotiation 500 above the counter
C7_Witness ==
    /\ last.op = "gather" /\ last.stage = "counterOffer"
    /\ ~EmptyInput(last) /\ ~Says(last, {"yes", "hi_haan", "hi_theek", "hi_chalega"})
    /\ last.digits # "1"
    /\ stored.stage = "finalAgreement"
    /\ stored.finalPrice = Some(9001)
    /\ stored.vendorPrice = Some(9001)

(* ------------------------ status events: properties -------------------- *)
\* a status event on a session with a current call
StatusStep == last'.op = "webhook" /\ sessionExists /\ currentCall.id # 0

NonFinalStatuses == {"ringing", "in-progress", "answered", "initiated", "queued"}

FinalStatuses == {"no-answer", "busy", "failed", "canceled", "completed"}

\* the call status each row of the table gives
RowStatus(status, duration, priced) ==
    CASE status \in {"no-answer", "busy"} -> "no-answer"
      [] status = "failed" -> "failed"
      [] status = "canceled" -> "hung-up"
      [] status = "completed" /\ duration < 10 -> "hung-up"
      [] status = "completed" /\ duration >= 10 /\ duration < 60 /\ ~priced -> "hung-up"
      [] status = "completed" /\ duration >= 10 /\ priced -> "completed"
      [] status = "completed" /\ duration >= 60 /\ ~priced -> "completed"
      [] status = "ringing" -> "ringing"
      [] status \in {"in-progress", "answered"} -> "in-progress"
      [] status \in {"initiated", "queued"} -> "initiating"

\* C8: a status event on a session with a current call gives the call the
\* status of its row (provider status, duration, negotiated price present);
\* completed with a price and ten seconds or more moves the journey to
\* processing-payment, every other final row resets it to selecting-vendor;
\* every final row appends exactly one assistant message; the non-final rows
\* change neither the journey status nor the messages.
C8_StatusTable ==
    [][(StatusStep /\ last'.status \in FinalStatuses \cup NonFinalStatuses) =>
          LET priced == Truthy(currentCall.negotiatedPrice)
              handOff == /\ last'.status = "completed"
                         /\ last'.duration >= 10
                         /\ priced
          IN  /\ currentCall'.status = RowStatus(last'.status, last'.duration, priced)
              /\ IF last'.status \in NonFinalStatuses
                 THEN journeyStatus' = journeyStatus /\ messages' = messages
                 ELSE /\ journeyStatus' = IF handOff THEN "processing-payment"
                                          ELSE "selecting-vendor"
                      /\ Len(messages') = Len(messages) + 1
                      /\ SubSeq(messages', 1, Len(messages)) = messages
                      /\ messages'[Len(messages')] # "user"]_vars

\* a call that holds a price is reported completed after five seconds: it
\* is a hang-up and the journey is back at selecting-vendor
C8_Witness ==
    /\ last.op = "webhook" /\ last.status = "completed" /\ last.duration < 10
    /\ Truthy(currentCall.negotiatedPrice)
    /\ currentCall.status = "hung-up"
    /\ journeyStatus = "selecting-vendor"
    /\ messages[Len(messages)] = "vendor-hung-up"

\* C9 (as claimed): a status event delivered a second time for the same
\* call appends no message, does not change the journey status and leaves
\* the call as the first delivery left it.
C9_DuplicateStatusIdempotent ==
    [][(/\ StatusStep
        /\ last.op = "webhook"
        /\ last'.status = last.status
        /\ last'.duration = last.duration
        /\ last'.attempt = last.attempt) =>
          /\ messages' = messages
          /\ journeyStatus' = journeyStatus
          /\ currentCall' = currentCall]_vars

(* -------------------------- payment: properties ------------------------ *)
\* C10 (as claimed): a process request on a session whose Transaction has a
\* status other than approved invokes no conversion, transfer or payout and
\* leaves the Transaction, the journey status and the messages unchanged.
C10_UnapprovedProcessRejected ==
    [][(/\ last'.op = "process"
        /\ sessionExists /\ selectedVendor
        /\ transaction.status \notin {"none", "approved"}) =>
          /\ settlement' = settlement
          /\ transaction' = transaction
          /\ journeyStatus' = journeyStatus
          /\ messages' = messages]_vars

\* the edges of Transaction.status
TransactionEdges ==
    {<<"pending", "approved">>, <<"awaiting-approval", "approved">>,
     <<"approved", "processing">>, <<"processing", "completed">>,
     <<"awaiting-approval", "rejected">>, <<"awaiting-approval", "failed">>,
     <<"approved", "failed">>, <<"processing", "failed">>}

\* a step that stores a new Transaction (request-approval, the mock call's
\* last timer, the process handler when there is none)
NewTransaction ==
    last'.op \in {"request-approval", "timer"} \/ transaction.status = "none"

\* C11 (as claimed): every change of the status of the session's
\* Transaction follows an edge of TransactionEdges; so completed, rejected
\* and failed are final and completed is entered from processing only.
C11_TransactionEdges ==
    [][(transaction'.status # transaction.status /\ ~NewTransaction) =>
          <<transaction.status, transaction'.status>> \in TransactionEdges]_vars

(* ------------------------ simulated call: properties ------------------- *)
\* a timer fires that was set for a call that is no longer the current one
StaleTimerStep ==
    last'.op = "timer" /\ \E t \in timers \ timers' : t.call # currentCall.id

\* C12 (as claimed): a timer set for an earlier call changes neither the
\* current call's status, duration or negotiated price nor the session's
\* journey status, transaction or messages.
C12_StaleTimersCancelled ==
    [][StaleTimerStep =>
          /\ currentCall'.status = currentCall.status
          /\ currentCall'.duration = currentCall.duration
          /\ currentCall'.negotiatedPrice = currentCall.negotiatedPrice
          /\ journeyStatus' = journeyStatus
          /\ transaction' = transaction
          /\ messages' = messages]_vars

\* the place of a status in the simulated progression
MockRank(status) ==
    CASE status = "ringing" -> 1
      [] status = "in-progress" -> 2
      [] status = "negotiating" -> 3
      [] status = "completed" -> 4
      [] OTHER -> 0

\* C20 (as claimed): in the simulated-call path every change of a call's
\* status is the next step of ringing, in-progress, negotiating, completed,
\* and on reaching completed the call has a negotiated price, the session an
\* awaiting-approval Transaction of that amount, and the journey is
\* processing-payment.
C20_MockProgression ==
    [][(currentCall'.id = currentCall.id /\ currentCall'.status # currentCall.status) =>
          /\ MockRank(currentCall'.status) = MockRank(currentCall.status) + 1
          /\ currentCall'.status = "completed" =>
                /\ Truthy(currentCall'.negotiatedPrice)
                /\ transaction'.status = "awaiting-approval"
                /\ transaction'.amount = currentCall'.negotiatedPrice[1]
                /\ journeyStatus' = "processing-payment"]_vars

ForcedTimeoutStep ==
    /\ \E st \in {"askRequirements", "negotiatePrice", "counterOffer"} : GatherStep(st)
    /\ EmptyInput(last')
    /\ stored.attempts + 1 >= maxAttempts

\* C14: after a gather turn that forces the timeout the call's status is
\* timeout, the journey status is selecting-vendor and the turn has appended
\* exactly one message, the invitation to try another vendor.
C14_TimeoutEffects ==
    [][ForcedTimeoutStep =>
          /\ currentCall'.status = "timeout"
          /\ journeyStatus' = "selecting-vendor"
          /\ Len(messages') = Len(messages) + 1
          /\ SubSeq(messages', 1, Len(messages)) = messages
          /\ messages'[Len(messages')] \in
                {"timeout-unresponsive", "timeout-unresponsive-call"}]_vars

\* the third empty turn on negotiatePrice
C14_Witness ==
    /\ last.op = "gather" /\ last.stage = "negotiatePrice" /\ EmptyInput(last)
    /\ stored.stage = "negotiatePrice" /\ stored.attempts = maxAttempts - 1
    /\ currentCall.status = "timeout"
    /\ journeyStatus = "selecting-vendor"
    /\ messages[Len(messages)] = "timeout-unresponsive"

\* a request to the voice-document endpoint or to the gather endpoint
VoiceStep == last'.op \in {"twiml", "gather"}

\* the session or its current call is missing when the request arrives
Missing == ~sessionExists \/ currentCall.id = 0

\* the document parses: no name put into it holds a markup character
WellFormed(doc) ==
    /\ doc.say # "none"
    /\ doc.stage \notin MarkupNames
    /\ doc.redirectStage \notin MarkupNames

\* C15: every request to the voice-document endpoint and to the gather
\* endpoint is answered with a well-formed voice document, and every status
\* callback is acknowledged with success.
C15_AlwaysAnswered ==
    [][/\ VoiceStep => last'.answer = "twiml" /\ WellFormed(voiceDoc')
       /\ last'.op = "webhook" => last'.answer = "ok"]_vars

\* prompt and terminate-call directive, nothing else
PromptAndHangup(doc) ==
    /\ doc.say # "none"
    /\ doc.hangup
    /\ ~doc.gather
    /\ doc.redirectStage = "none"

\* C16: a voice-document request or a gather submission for a missing
\* session or call is answered with an apology and a terminate-call directive
\* (no gather directive, no redirect), and changes no session state.
C16_MissingSessionFallback ==
    [][(VoiceStep /\ Missing) =>
          /\ PromptAndHangup(voiceDoc')
          /\ UNCHANGED <<sessionExists, vendors, selectedVendor, journeyStatus,
                         messages, currentCall, transaction>>]_vars

TerminalStages == {"finalAgreement", "noSaree", "timeout", "ended"}

\* the renderer is applied: a voice-document request for a call that exists
RenderStep == last'.op = "twiml" /\ ~Missing

\* C17: for every terminal stage the renderer returns a prompt and a
\* terminate-call directive only, with no gather directive and no redirect.
C17_TerminalStagesHangUp ==
    [][(RenderStep /\ last'.stage \in TerminalStages) =>
          PromptAndHangup(voiceDoc')]_vars

\* C18: a non-terminal stage rendered with an attempt number of at least
\* maxAttempts gives a document with the apology and the terminate-call
\* directive and no gather directive.
C18_LastAttemptHasNoGather ==
    [][(RenderStep /\ last'.stage \in NonTerminalStages
                   /\ last'.attempt >= maxAttempts) =>
          /\ voiceDoc'.hangup
          /\ ~voiceDoc'.gather]_vars

\* what the stage switch computes in the turn being taken
computedTurn ==
    stageSwitch(last'.stage, initConversationState(stored),
                toLowerCase(last'.speech), last'.digits)

\* a gather turn in which the stage switch runs and leaves the stage
TransitionStep ==
    /\ \E st \in ValidStages : GatherStep(st)
    /\ ~(EmptyInput(last') /\ stored.attempts >= maxAttempts)
    /\ computedTurn.nextStage # last'.stage

\* C19: after a gather turn that makes a stage transition the stored
\* ConversationState is the computed one, for every target stage, timeout
\* included; and whenever finalPrice is set the call's negotiatedPrice
\* equals it.
C19_StatePersisted ==
    /\ [][TransitionStep =>
            stored' = [computedTurn.cs EXCEPT !.stage = computedTurn.nextStage]]_vars
    /\ [](Truthy(stored.finalPrice) => currentCall.negotiatedPrice = stored.finalPrice)

(* ------------------------- payments: approval -------------------------- *)
\* the negotiation has produced no price: no current call, or a call
\* without a negotiated price
NoPriceYet == currentCall.id = 0 \/ ~Truthy(currentCall.negotiatedPrice)

\* C21: a payment-approval request made while the session has no current
\* call, or a call without a negotiated price, is refused: no Transaction is
\* created or replaced.
C21_ApprovalNeedsPrice ==
    [][(last'.op = "request-approval" /\ NoPriceYet) =>
          transaction' = transaction]_vars

(* ---------------------- negotiation: stage by stage --------------------- *)
\* a gather turn on the stage in which the stage switch runs
SwitchStep(stage) ==
    /\ GatherStep(stage)
    /\ ~(EmptyInput(last') /\ stored.attempts >= maxAttempts)

\* C22: a gather turn that moves the machine from greeting to noSaree
\* appends one assistant message, the polite decline, and leaves the call's
\* status, duration and completion time unchanged.
C22_NoSareeDeclines ==
    [][(SwitchStep("greeting") /\ computedTurn.nextStage = "noSaree") =>
          /\ Len(messages') = Len(messages) + 1
          /\ SubSeq(messages', 1, Len(messages)) = messages
          /\ currentCall'.status = currentCall.status
          /\ currentCall'.duration = currentCall.duration
          /\ currentCall'.completedAt = currentCall.completedAt]_vars

\* digit 1 or an affirmative word; digit 2 or a negative word
Affirmative(req) == req.digits = "1" \/ Says(req, {"yes", "haan", "hi_haan"})

Negative(req) == req.digits = "2" \/ Says(req, {"no", "nahi", "hi_nahin"})

\* C23: at greeting an affirmative input gives askRequirements with attempts
\* 0; otherwise a negative input gives noSaree with attempts 0; any other
\* input, no input included, raises attempts by one and gives noSaree when
\* attempts is then at least maxAttempts, greeting otherwise. No greeting
\* turn ends in timeout.
C23_GreetingTurn ==
    [][GatherStep("greeting") =>
          /\ currentCall'.status # "timeout"
          /\ IF Affirmative(last')
             THEN stored'.stage = "askRequirements" /\ stored'.attempts = 0
             ELSE IF Negative(last')
             THEN stored'.stage = "noSaree" /\ stored'.attempts = 0
             ELSE /\ stored'.attempts = stored.attempts + 1
                  /\ stored'.stage = IF stored.attempts + 1 >= maxAttempts
                                     THEN "noSaree" ELSE "greeting"]_vars

\* C24 (as claimed): at askRequirements any non-empty input gives negotiatePrice with
\* attempts 0, the first number of the transcript as quantity (quantity as it
\* was, 5 by default, without a number) and the second number, if any, as
\* vendorPrice; an empty input leaves quantity and vendorPrice as they were,
\* raises attempts by one and stays on askRequirements below maxAttempts,
\* and ends the call in timeout at maxAttempts.
C24_AskRequirementsTurn ==
    [][GatherStep("askRequirements") =>
          LET numbers == NumbersSaid(last')
          IN  IF ~EmptyInput(last')
              THEN /\ stored'.stage = "negotiatePrice"
                   /\ stored'.attempts = 0
                   /\ stored'.quantity =
                         IF Len(numbers) > 0 THEN Some(parseInt(numbers[1]))
                         ELSE Some(OrElse(stored.quantity, 5))
                   /\ stored'.vendorPrice =
                         IF Len(numbers) > 1 THEN Some(parseInt(numbers[2]))
                         ELSE stored.vendorPrice
              ELSE /\ OrElse(stored'.quantity, 5) = OrElse(stored.quantity, 5)
                   /\ stored'.vendorPrice = stored.vendorPrice
                   /\ IF stored.attempts + 1 < maxAttempts
                      THEN /\ stored'.stage = "askRequirements"
                           /\ stored'.attempts = stored.attempts + 1
                      ELSE currentCall'.status = "timeout"]_vars

\* C24 (amended): as claimed, except that a first number of 0 gives the
\* default quantity 5.
C24_ZeroQuantityDefaults ==
    [][GatherStep("askRequirements") =>
          LET numbers == NumbersSaid(last')
          IN  IF ~EmptyInput(last')
              THEN /\ stored'.stage = "negotiatePrice"
                   /\ stored'.attempts = 0
                   /\ stored'.quantity =
                         IF Len(numbers) > 0
                         THEN Some(OrElse(Some(parseInt(numbers[1])), 5))
                         ELSE Some(OrElse(stored.quantity, 5))
                   /\ stored'.vendorPrice =
                         IF Len(numbers) > 1 THEN Some(parseInt(numbers[2]))
                         ELSE stored.vendorPrice
              ELSE /\ OrElse(stored'.quantity, 5) = OrElse(stored.quantity, 5)
                   /\ stored'.vendorPrice = stored.vendorPrice
                   /\ IF stored.attempts + 1 < maxAttempts
                      THEN /\ stored'.stage = "askRequirements"
                           /\ stored'.attempts = stored.attempts + 1
                      ELSE currentCall'.status = "timeout"]_vars

\* the vendor answered askRequirements with the number 0
C24_Witness ==
    /\ last.op = "gather" /\ last.stage = "askRequirements"
    /\ NumbersSaid(last) = <<<<0>>>>
    /\ stored.stage = "negotiatePrice"
    /\ stored.attempts = 0
    /\ stored.quantity = Some(5)

\* digit 1 or a word of agreement, as the counterOffer stage hears it
Agrees(req) ==
    req.digits = "1" \/ Says(req, {"yes", "hi_haan", "hi_theek", "hi_chalega"})

\* the counter-offer: the midpoint of initialPrice and vendorPrice
Midpoint == roundHalf(OrElse(stored.initialPrice, 8000), OrElse(stored.vendorPrice, 0))

\* C25: at counterOffer a reply of agreement gives finalAgreement with
\* finalPrice unchanged, any other non-empty reply gives finalAgreement with
\* finalPrice raised by exactly 500, both with attempts 0; hence at
\* finalAgreement finalPrice is initialPrice, the midpoint counter-offer or
\* the midpoint plus 500.
C25_CounterOfferCloses ==
    /\ [][(GatherStep("counterOffer") /\ ~EmptyInput(last')
              /\ Truthy(stored.finalPrice)) =>
            /\ stored'.stage = "finalAgreement"
            /\ stored'.attempts = 0
            /\ stored'.finalPrice = IF Agrees(last') THEN stored.finalPrice
                                    ELSE Some(stored.finalPrice[1] + 500)]_vars
    /\ [](stored.stage = "finalAgreement" =>
            /\ Truthy(stored.finalPrice)
            /\ stored.finalPrice[1] \in
                  {OrElse(stored.initialPrice, 8000), Midpoint, Midpoint + 500})

(* --------------------------- redirect chain ---------------------------- *)
\* C26: a non-terminal stage rendered with an attempt below maxAttempts gives
\* a Gather whose action names that stage and attempt and a Redirect to the
\* same stage with attempt + 1; a provider that follows the redirects from
\* attempt 1 is given at most maxAttempts documents for the stage, and the
\* one of attempt maxAttempts ends in the terminate-call directive with no
\* redirect.
C26_RedirectChain ==
    /\ [][(RenderStep /\ last'.stage \in NonTerminalStages) =>
            /\ voiceDoc'.gather
            /\ voiceDoc'.stage = last'.stage
            /\ voiceDoc'.attempt = last'.attempt
            /\ IF last'.attempt < maxAttempts
               THEN /\ voiceDoc'.redirectStage = last'.stage
                    /\ voiceDoc'.redirectAttempt = last'.attempt + 1
                    /\ ~voiceDoc'.hangup
               ELSE /\ voiceDoc'.redirectStage = "none"
                    /\ voiceDoc'.hangup]_vars
    /\ [][last'.op = "twiml" =>
            /\ last'.stage = voiceDoc.redirectStage
            /\ last'.attempt = voiceDoc.attempt + 1
            /\ last'.attempt <= maxAttempts]_vars
    /\ [](voiceDoc.attempt <= maxAttempts)

\* the third document of the greeting: its Gather, the apology, the hang-up
C26_Witness ==
    /\ last.op = "twiml" /\ last.stage = "greeting" /\ last.attempt = maxAttempts
    /\ voiceDoc.gather /\ voiceDoc.attempt = maxAttempts
    /\ voiceDoc.hangup /\ voiceDoc.redirectStage = "none"

(* ------------------------ payments: settlement ------------------------- *)
\* the process handler invoked the conversion and it threw
ConversionFails ==
    /\ last'.op \in {"process", "process-sent"}
    /\ settlement'.convert > settlement.convert
    /\ transaction'.status # "processing"

\* the payout threw
PayoutFails == last'.op = "process-paid" /\ ~last'.flag

\* C27: settlement converts, then transfers, then pays out, and the
\* reference of each step is on the Transaction when the next step is
\* invoked; when a step fails the Transaction is failed, holds the references
\* of the steps before it and none of the failed or later steps, and the
\* journey is not set to completed.
C27_PartialRecordKept ==
    /\ [](settlement.payout <= settlement.transfer
             /\ settlement.transfer <= settlement.convert)
    /\ [][settlement'.transfer > settlement.transfer =>
             transaction'.coinbaseConversionId]_vars
    /\ [][settlement'.payout > settlement.payout =>
             transaction'.coinbaseConversionId /\ transaction'.locusTransactionHash]_vars
    /\ [][ConversionFails =>
             /\ transaction'.status = "failed"
             /\ ~transaction'.coinbaseConversionId
             /\ ~transaction'.locusTransactionHash
             /\ ~transaction'.stripePayoutId
             /\ journeyStatus' = journeyStatus]_vars
    /\ [][PayoutFails =>
             /\ transaction'.status = "failed"
             /\ transaction'.coinbaseConversionId
             /\ transaction'.locusTransactionHash
             /\ ~transaction'.stripePayoutId
             /\ journeyStatus' = journeyStatus]_vars

\* a step in which the settlement pipeline is started
PipelineStarts == settlement'.convert > settlement.convert

HandOffStep ==
    /\ last'.op \in {"webhook", "webhook-resumed"}
    /\ journeyStatus' = "processing-payment"
    /\ journeyStatus # "processing-payment"

\* C29: a status callback moves the journey to processing-payment only when
\* the call's conversation stage is finalAgreement; a call whose stage is
\* still counterOffer is not handed off to payment.
C29_HandOffOnlyWhenClosed ==
    [][HandOffStep => stored.stage = "finalAgreement"]_vars

\* the statuses of a call that has ended
EndStates == {"completed", "no-answer", "hung-up", "timeout", "failed"}

\* C30: once the call's status is an end state, a status event for the call
\* does not change the status, does not clear the completion time and
\* appends no message.
C30_EndStateKept ==
    [][(StatusStep /\ currentCall.status \in EndStates) =>
          /\ currentCall'.status = currentCall.status
          /\ currentCall'.completedAt = currentCall.completedAt
          /\ messages' = messages]_vars

====
